---- MODULE Spec2Model ----
(***************************************************************************)
(* A model of the retrieval-augmented query service of sispk6/LLMRAG:      *)
(*   src/ingest.py      extract_version, load_documents, ingest_documents  *)
(*   src/rag_engine.py  RAGProvider.initialize, RAGProvider.query          *)
(*   src/api.py         the /query, /ingest, /clear and /upload handlers   *)
(*                                                                         *)
(* Strings are sequences of one-character strings, so that lower(),        *)
(* splitext(), the regular expressions and the f-strings of the source are *)
(* computed character by character.                                        *)
(***************************************************************************)
EXTENDS Integers, Sequences, FiniteSets, Bags, TLC

(***************************************************************************)
(* Characters and string helpers                                           *)
(***************************************************************************)
None == "None"

\* An optional value (Python's None or a value): <<>> or <<value>>.
Absent == <<>>

Some(v) == <<v>>

IsGiven(o) == o # <<>>

Value(o) == o[1]

Digits == {"0", "1", "2", "3", "4", "5", "6", "7", "8", "9"}

IsDigit(c) == c \in Digits

DigitVal(c) ==
  CASE c = "0" -> 0 [] c = "1" -> 1 [] c = "2" -> 2 [] c = "3" -> 3
    [] c = "4" -> 4 [] c = "5" -> 5 [] c = "6" -> 6 [] c = "7" -> 7
    [] c = "8" -> 8 [] c = "9" -> 9

DigitChar(d) ==
  CASE d = 0 -> "0" [] d = 1 -> "1" [] d = 2 -> "2" [] d = 3 -> "3"
    [] d = 4 -> "4" [] d = 5 -> "5" [] d = 6 -> "6" [] d = 7 -> "7"
    [] d = 8 -> "8" [] d = 9 -> "9"

\* int(text) for a string of decimal digits: leading zeros carry no value.
RECURSIVE ParseInt(_)
ParseInt(ds) ==
  IF ds = <<>> THEN 0
  ELSE 10 * ParseInt(SubSeq(ds, 1, Len(ds) - 1)) + DigitVal(ds[Len(ds)])

\* f"{n}" for a non-negative integer.
RECURSIVE FormatInt(_)
FormatInt(n) ==
  IF n < 10 THEN <<DigitChar(n)>>
  ELSE FormatInt(n \div 10) \o <<DigitChar(n % 10)>>

\* str.lower() on the ASCII letters; every other character is kept.
LowerChar(c) ==
  CASE c = "A" -> "a" [] c = "B" -> "b" [] c = "C" -> "c" [] c = "D" -> "d"
    [] c = "E" -> "e" [] c = "F" -> "f" [] c = "G" -> "g" [] c = "H" -> "h"
    [] c = "I" -> "i" [] c = "J" -> "j" [] c = "K" -> "k" [] c = "L" -> "l"
    [] c = "M" -> "m" [] c = "N" -> "n" [] c = "O" -> "o" [] c = "P" -> "p"
    [] c = "Q" -> "q" [] c = "R" -> "r" [] c = "S" -> "s" [] c = "T" -> "t"
    [] c = "U" -> "u" [] c = "V" -> "v" [] c = "W" -> "w" [] c = "X" -> "x"
    [] c = "Y" -> "y" [] c = "Z" -> "z" [] OTHER -> c

Lower(s) == [i \in 1..Len(s) |-> LowerChar(s[i])]

EndsWith(s, suffix) ==
  /\ Len(suffix) <= Len(s)
  /\ SubSeq(s, Len(s) - Len(suffix) + 1, Len(s)) = suffix

\* The last index of the maximal run of digits that starts at index i
\* (i - 1 when s[i] is no digit).
RECURSIVE DigitRunEnd(_, _)
DigitRunEnd(s, i) ==
  IF i <= Len(s) /\ IsDigit(s[i]) THEN DigitRunEnd(s, i + 1) ELSE i - 1

(***************************************************************************)
(* ingest.py: extract_version                                              *)
(*   re.search(r'_v(\d+)(?:\.[^.]+)?$', filename)                          *)
(* \d+ is greedy and what follows it cannot start with a digit, so group 1 *)
(* is the maximal digit run.  After it comes the end of the string, or one *)
(* dot and one or more non-dot characters up to the end; `$` also matches  *)
(* just before a newline that ends the string.                             *)
(***************************************************************************)
VersionTailOk(s, j) ==
  \/ j = Len(s)
  \/ j + 1 = Len(s) /\ s[j + 1] = "\n"
  \/ /\ j + 2 <= Len(s)
     /\ s[j + 1] = "."
     /\ \A k \in (j + 2)..Len(s) : s[k] # "."

VersionMatchAt(s, i) ==
  /\ i + 2 <= Len(s)
  /\ s[i] = "_"
  /\ s[i + 1] = "v"
  /\ IsDigit(s[i + 2])
  /\ VersionTailOk(s, DigitRunEnd(s, i + 2))

extract_version(filename) ==
  LET starts == {i \in 1..Len(filename) : VersionMatchAt(filename, i)}
  IN  IF starts # {}
      THEN LET i == CHOOSE m \in starts : \A n \in starts : m <= n
           IN  ParseInt(SubSeq(filename, i + 2, DigitRunEnd(filename, i + 2)))
      ELSE 1

(***************************************************************************)
(* api.py: the renaming of upload_document                                 *)
(***************************************************************************)
\* os.path.splitext on a bare file name: the extension starts at the last
\* dot, unless that dot is one of the leading dots of the name.
SplitExtAt(name) ==
  LET dots == {i \in 1..Len(name) : name[i] = "."}
      last == CHOOSE m \in dots : \A n \in dots : n <= m
  IN  IF dots = {} \/ (\A k \in 1..last : name[k] = ".")
      THEN Len(name) + 1
      ELSE last

SplitExtRoot(name) == SubSeq(name, 1, SplitExtAt(name) - 1)

SplitExtExt(name) == SubSeq(name, SplitExtAt(name), Len(name))

\* re.sub(r'_v\d+$', '', name): the leftmost _v<digits> that reaches the end
\* of the name (or the newline ending it) is cut out.
StripVersionSuffix(name) ==
  LET ok(i) == /\ i + 2 <= Len(name)
               /\ name[i] = "_"
               /\ name[i + 1] = "v"
               /\ IsDigit(name[i + 2])
               /\ LET j == DigitRunEnd(name, i + 2)
                  IN  j = Len(name) \/ (j + 1 = Len(name) /\ name[j + 1] = "\n")
      starts == {i \in 1..Len(name) : ok(i)}
  IN  IF starts = {} THEN name
      ELSE LET i == CHOOSE m \in starts : \A n \in starts : m <= n
           IN  SubSeq(name, 1, i - 1)
                 \o SubSeq(name, DigitRunEnd(name, i + 2) + 1, Len(name))

\* final_filename of upload_document.
FinalFilename(filename, version) ==
  IF ~IsGiven(version) THEN filename
  ELSE StripVersionSuffix(SplitExtRoot(filename))
         \o <<"_", "v">> \o FormatInt(Value(version)) \o SplitExtExt(filename)

(***************************************************************************)
(* Names used by the requests of the model                                 *)
(***************************************************************************)
Leave == <<"L", "e", "a", "v", "e">>

leave == <<"l", "e", "a", "v", "e">>

General == <<"G", "e", "n", "e", "r", "a", "l">>

noting == <<"n", "o", "t", "i", "n", "g">>

Noting == <<"N", "o", "t", "i", "n", "g">>

NOTING == <<"N", "O", "T", "I", "N", "G">>

EmptyString == <<>>

leave_pdf == <<"l", "e", "a", "v", "e", ".", "p", "d", "f">>

leave_v1_pdf == <<"l", "e", "a", "v", "e", "_", "v", "1", ".", "p", "d", "f">>

memo_txt == <<"m", "e", "m", "o", ".", "t", "x", "t">>

ExtPdf == <<".", "p", "d", "f">>

ExtDocx == <<".", "d", "o", "c", "x">>

ExtTxt == <<".", "t", "x", "t">>

\* The directory part of a file that lies directly under the source root.
Root == <<>>

\* A file of the source directory: [dir |-> Root or a category directory,
\* name |-> its file name].
File(dir, name) == [dir |-> dir, name |-> name]

(***************************************************************************)
(* Bounds of the model                                                     *)
(***************************************************************************)
\* Worker threads serving requests (FastAPI runs `def` handlers in a pool).
Threads == {"t1", "t2"}

\* Chunks the splitter makes of one loaded document.
ChunksPerDoc == 1

\* /ingest requests served in one behaviour.
MaxIngests == 2

\* /clear requests served in one behaviour.
MaxClears == 1

UploadCategories == {Leave}

UploadNames == {leave_v1_pdf}

UploadVersions == {Absent, Some(1), Some(2)}

QueryCategories ==
  {Absent, Some(EmptyString), Some(Noting), Some(NOTING), Some(Leave),
   Some(leave)}

Questions == {"What is the leave policy?"}

(***************************************************************************)
(* ingest.py: load_documents and the splitter                              *)
(***************************************************************************)
\* glob's `*<ext>`: the name ends with the extension and is not hidden.
GlobMatches(name, ext) == EndsWith(name, ext) /\ name[1] # "."

\* The members of a finite set in one fixed order (the order in which the
\* file system lists a directory is not specified).
RECURSIVE Listing(_)
Listing(S) ==
  IF S = {} THEN <<>>
  ELSE LET x == CHOOSE y \in S : TRUE IN <<x>> \o Listing(S \ {x})

\* The documents one loader yields for the files of directory dir that match
\* ext and parse: category and version are put in the metadata.
LoadKind(files, failed, dir, ext, category) ==
  LET paths == Listing({f \in files : f.dir = dir /\ GlobMatches(f.name, ext)})
      good  == SelectSeq(paths, LAMBDA f : f \notin failed)
  IN  [i \in 1..Len(good) |->
         [source   |-> good[i],
          category |-> category,
          version  |-> extract_version(good[i].name)]]

RECURSIVE LoadCategories(_, _, _)
LoadCategories(files, failed, dirs) ==
  IF dirs = <<>> THEN <<>>
  ELSE LET item == Head(dirs)
       IN  LoadKind(files, failed, item, ExtPdf, item)
             \o LoadKind(files, failed, item, ExtDocx, item)
             \o LoadKind(files, failed, item, ExtTxt, item)
             \o LoadCategories(files, failed, Tail(dirs))

\* load_documents: the files directly under the root get category General,
\* the files of a subdirectory get its name; a file whose loader raises
\* (failed) is skipped.
load_documents(files, failed) ==
  LoadKind(files, failed, Root, ExtPdf, General)
    \o LoadKind(files, failed, Root, ExtDocx, General)
    \o LoadKind(files, failed, Root, ExtTxt, General)
    \o LoadCategories(files, failed,
                      Listing({f.dir : f \in {g \in files : g.dir # Root}}))

\* RecursiveCharacterTextSplitter.split_documents: every chunk inherits the
\* metadata of its document.
RECURSIVE split_documents(_)
split_documents(documents) ==
  IF documents = <<>> THEN <<>>
  ELSE [i \in 1..ChunksPerDoc |-> Head(documents)]
         \o split_documents(Tail(documents))

(***************************************************************************)
(* The vector store: a bag of entries, each the metadata of one chunk      *)
(***************************************************************************)
\* The entries of a bag as a sequence, in one fixed order.
RECURSIVE SeqOfBag(_)
SeqOfBag(B) ==
  IF BagToSet(B) = {} THEN <<>>
  ELSE LET e == CHOOSE x \in BagToSet(B) : TRUE
       IN  [i \in 1..B[e] |-> e]
             \o SeqOfBag([x \in BagToSet(B) \ {e} |-> B[x]])

\* The entries the filter {"category": category} leaves (all without filter).
Filtered(store, filter) ==
  LET keep == {e \in BagToSet(store) :
                 ~IsGiven(filter) \/ e.category = Value(filter)}
  IN  [e \in keep |-> store[e]]

\* similarity search: k of the entries that pass the filter, or all of them
\* when there are fewer; which k depends on the embeddings, so any k may come.
SimilaritySearch(store, k, filter) ==
  LET pool == Filtered(store, filter)
  IN  IF BagCardinality(pool) <= k
      THEN {SeqOfBag(pool)}
      ELSE {SeqOfBag(b) : b \in {c \in SubBag(pool) : BagCardinality(c) = k}}

(***************************************************************************)
(* rag_engine.py: the post-processing of RAGProvider.query                 *)
(***************************************************************************)
VersionKey(doc) == <<doc.source, doc.category>>

\* Mutant: the first loop without the version comparison (the last chunk of
\* a key decides).
RECURSIVE LatestVersionsLastWins(_, _)
LatestVersionsLastWins(docs, lv) ==
  IF docs = <<>> THEN lv
  ELSE LET doc == Head(docs)
           key == <<doc.source, doc.category>>
       IN  LatestVersionsLastWins(Tail(docs),
             [k \in DOMAIN lv \cup {key} |->
                IF k = key THEN doc.version ELSE lv[k]])

\* The first loop: latest_versions after the documents docs, starting from
\* the dictionary lv.
RECURSIVE LatestVersions(_, _)
LatestVersions(docs, lv) ==
  IF docs = <<>> THEN lv
  ELSE LET doc == Head(docs)
           key == VersionKey(doc)
       IN  IF key \notin DOMAIN lv \/ doc.version > lv[key]
           THEN LatestVersions(Tail(docs),
                  [k \in DOMAIN lv \cup {key} |->
                     IF k = key THEN doc.version ELSE lv[k]])
           ELSE LatestVersions(Tail(docs), lv)

EmptyDict == [k \in {} |-> 0]

\* The second loop: every document gets metadata["is_latest"].
TagLatest(docs) ==
  LET latest_versions == LatestVersions(docs, EmptyDict)
  IN  [i \in 1..Len(docs) |->
         [source    |-> docs[i].source,
          category  |-> docs[i].category,
          version   |-> docs[i].version,
          is_latest |-> docs[i].version = latest_versions[VersionKey(docs[i])]]]

(***************************************************************************)
(* State                                                                   *)
(***************************************************************************)
VARIABLES
  started,       \* the startup event has run rag.initialize()
  modelPresent,  \* the file at config["model_path"] exists
  llm,           \* rag.llm: None or the loaded model
  qa_chain,      \* rag.qa_chain: Absent or Some([retriever |-> handle])
  db,            \* rag.db: Absent or Some(handle)
  files,         \* the files of the source directory
  dirExists,     \* the persist directory exists
  stores,        \* stores[h]: the entries of the h-th incarnation of the
                 \* persist directory; the last one is the one on disk
  pc,            \* pc[t]: where thread t stands in its handler
  req,           \* req[t]: the request thread t serves
  loc,           \* loc[t]: the local variables of the handler
  resp,          \* resp[t]: the response of the finished handler
  served,        \* served[op]: the /ingest and /clear requests taken so far
  tagIn,         \* input of the tagger when it is run on its own
  tagOut,        \* its output
  verIn,         \* a file name handed to extract_version on its own
  verOut         \* Absent, or Some(the version it returned)

vars == <<started, modelPresent, llm, qa_chain, db, files, dirExists, stores,
          pc, req, loc, resp, served, tagIn, tagOut, verIn, verOut>>

engine == <<llm, qa_chain, db>>

\* The variables of extract_version when it is run on its own.
resolver == <<verIn, verOut>>

\* A handle of the vector store is the number of the incarnation of the
\* persist directory it was opened on.
Current == Len(stores)

LlamaCpp == "LlamaCpp"

NoReq == [op |-> "none", question |-> "", category |-> Absent]

NoLoc ==
  [texts |-> <<>>, corpus |-> <<>>, handle |-> Absent, ndocs |-> 0,
   ret |-> Absent, retriever |-> Absent, filter |-> Absent, docs |-> <<>>,
   retrieved |-> FALSE, llmInput |-> Absent]

\* A response: the HTTP status, the answer or status text, and the
\* source_documents of the result of rag.query, which query_rag renders one
\* line each (source, category, version and the [LATEST] / [OLD VERSION] mark
\* read off is_latest).
NoResp == [status |-> 0, body |-> "", sources |-> <<>>]

\* The prompts the language model is invoked on.
RawPrompt(question) == [kind |-> "raw", question |-> question, context |-> <<>>]

StuffPrompt(question, docs) ==
  [kind |-> "template", question |-> question, context |-> docs]

\* Python's truth value of an optional string: None and "" are false.
Truthy(s) == IsGiven(s) /\ Value(s) # EmptyString

\* category.lower() == "noting"
IsSentinel(category) == Lower(category) = noting

Init ==
  /\ started = FALSE
  /\ modelPresent \in BOOLEAN
  /\ llm = None
  /\ qa_chain = Absent
  /\ db = Absent
  /\ files = {}
  /\ dirExists = FALSE
  /\ stores = <<EmptyBag>>
  /\ pc = [t \in Threads |-> "idle"]
  /\ req = [t \in Threads |-> NoReq]
  /\ loc = [t \in Threads |-> NoLoc]
  /\ resp = [t \in Threads |-> NoResp]
  /\ served = [ingest |-> 0, clear |-> 0]
  /\ tagIn = <<>>
  /\ tagOut = <<>>
  /\ verIn = <<>>
  /\ verOut = Absent

(***************************************************************************)
(* rag_engine.py: RAGProvider.initialize                                   *)
(***************************************************************************)
\* search_kwargs={"k": 10}
TopK == 10

\* Part 1: self.db = Chroma(persist_directory=...), which creates the
\* directory when it is missing, and the retriever made of it.
OpenedDb == Some(Current)

\* Parts 2 and 3: without the model file nothing is assigned; with it the
\* model is loaded unless it already is, and the chain is built anew.
LlmAfterInitialize(present, old) ==
  IF ~present THEN old ELSE IF old = None THEN LlamaCpp ELSE old

ChainAfterInitialize(present, old, retriever) ==
  IF ~present THEN old ELSE Some([retriever |-> retriever])

\* The startup event: rag.initialize() runs before any request is served.
Startup ==
  /\ ~started
  /\ started' = TRUE
  /\ db' = OpenedDb
  /\ dirExists' = TRUE
  /\ llm' = LlmAfterInitialize(modelPresent, llm)
  /\ qa_chain' = ChainAfterInitialize(modelPresent, qa_chain, Value(OpenedDb))
  /\ UNCHANGED <<modelPresent, files, stores, pc, req, loc, resp, served,
                 tagIn, tagOut, resolver>>

(***************************************************************************)
(* api.py: query_rag, and rag_engine.py: RAGProvider.query                 *)
(***************************************************************************)
\* Mutant: the sentinel is compared without lower().
QueryRouteCaseSensitive(model, chain, handle, category) ==
  IF model = None THEN "no_llm"
  ELSE IF Truthy(category) /\ Value(category) = noting THEN "direct"
  ELSE IF ~IsGiven(chain) THEN "no_chain"
  ELSE IF Truthy(category)
       THEN IF IsGiven(handle) THEN "filtered" ELSE "attribute_error"
       ELSE "unfiltered"

\* Mutant: the check of self.llm is missing.
QueryRouteNoModelCheck(model, chain, handle, category) ==
  IF Truthy(category) /\ IsSentinel(Value(category)) THEN "direct"
  ELSE IF ~IsGiven(chain) THEN "no_chain"
  ELSE IF Truthy(category)
       THEN IF IsGiven(handle) THEN "filtered" ELSE "attribute_error"
       ELSE "unfiltered"

\* The branch query takes, read off the engine when the call starts.
QueryRoute(model, chain, handle, category) ==
  IF model = None THEN "no_llm"
  ELSE IF Truthy(category) /\ IsSentinel(Value(category)) THEN "direct"
  ELSE IF ~IsGiven(chain) THEN "no_chain"
  ELSE IF Truthy(category)
       THEN IF IsGiven(handle) THEN "filtered" ELSE "attribute_error"
       ELSE "unfiltered"

\* A finished handler hands its response over before anything else moves:
\* sending it touches nothing that is shared.
Serving == started /\ \A u \in Threads : pc[u] # "done"

Respond(t, status, body, sources) ==
  /\ resp' = [resp EXCEPT ![t] =
                [status |-> status, body |-> body, sources |-> sources]]
  /\ pc' = [pc EXCEPT ![t] = "done"]

QueryEnter(t, question, category) ==
  /\ Serving
  /\ pc[t] = "idle"
  /\ req' = [req EXCEPT ![t] =
               [op |-> "query", question |-> question, category |-> category]]
  /\ LET route == QueryRoute(llm, qa_chain, db, category)
     IN  CASE route = "no_llm" ->
                /\ Respond(t, 200, "Error: LLM not initialized", <<>>)
                /\ UNCHANGED loc
           [] route = "direct" ->
                \* self.llm.invoke(query_text) is entered
                /\ pc' = [pc EXCEPT ![t] = "direct_llm"]
                /\ loc' = [loc EXCEPT ![t].llmInput = Some(RawPrompt(question))]
                /\ UNCHANGED resp
           [] route = "no_chain" ->
                /\ Respond(t, 200, "Error: QA chain not initialized", <<>>)
                /\ UNCHANGED loc
           [] route = "attribute_error" ->
                \* self.db is None: as_retriever raises, query_rag answers 500
                /\ Respond(t, 500, "Query failed", <<>>)
                /\ UNCHANGED loc
           [] route = "filtered" ->
                /\ pc' = [pc EXCEPT ![t] = "chain_invoke"]
                /\ loc' = [loc EXCEPT ![t].retriever = db,
                                      ![t].filter = category]
                /\ UNCHANGED resp
           [] route = "unfiltered" ->
                /\ pc' = [pc EXCEPT ![t] = "chain_invoke"]
                /\ loc' = [loc EXCEPT
                             ![t].retriever = Some(Value(qa_chain).retriever),
                             ![t].filter = Absent]
                /\ UNCHANGED resp
  /\ UNCHANGED <<started, modelPresent, engine, files, dirExists, stores,
                 served, tagIn, tagOut, resolver>>

\* chain.invoke, first half: the retriever searches the store its handle was
\* opened on.  A handle whose directory has been removed since is served from
\* what the client still holds, or raises.
ChainRetrieve(t) ==
  /\ Serving
  /\ pc[t] = "chain_invoke"
  /\ LET h == Value(loc[t].retriever)
     IN  \/ \E docs \in SimilaritySearch(stores[h], TopK, loc[t].filter) :
              /\ loc' = [loc EXCEPT
                           ![t].docs = docs,
                           ![t].retrieved = TRUE,
                           ![t].llmInput =
                              Some(StuffPrompt(req[t].question, docs))]
              /\ pc' = [pc EXCEPT ![t] = "rag_llm"]
              /\ UNCHANGED resp
         \/ /\ h # Current
            /\ Respond(t, 500, "Query failed", <<>>)
            /\ loc' = [loc EXCEPT ![t].retrieved = TRUE]
  /\ UNCHANGED <<started, modelPresent, engine, files, dirExists, stores, req,
                 served, tagIn, tagOut, resolver>>

\* chain.invoke, second half: the model answers the stuffed prompt and the
\* sources are tagged, or the model raises and query_rag answers 500.
ChainLlmReturn(t) ==
  /\ Serving
  /\ pc[t] = "rag_llm"
  /\ \/ Respond(t, 200, "answer", TagLatest(loc[t].docs))
     \/ Respond(t, 500, "Query failed", <<>>)
  /\ UNCHANGED <<started, modelPresent, engine, files, dirExists, stores, req,
                 loc, served, tagIn, tagOut, resolver>>

\* self.llm.invoke(query_text) returns, or raises and the error is answered.
DirectLlmReturn(t) ==
  /\ Serving
  /\ pc[t] = "direct_llm"
  /\ \/ Respond(t, 200, "answer", <<>>)
     \/ Respond(t, 200, "Error calling LLM", <<>>)
  /\ UNCHANGED <<started, modelPresent, engine, files, dirExists, stores, req,
                 loc, served, tagIn, tagOut, resolver>>

(***************************************************************************)
(* api.py: trigger_ingest, and ingest.py: ingest_documents                 *)
(***************************************************************************)
\* Mutant: `if documents is None: return` (a list is never None).
NoDocumentsIsNone(documents) == FALSE

\* `if not documents: return`
NoDocuments(documents) == Len(documents) = 0

\* One insertion of Chroma.from_documents into the collection of the persist
\* directory: the entry is added to what the directory already holds.
AddEntry(store, text) == store (+) SetToBag({text})

\* ingest_documents up to the split.  Nothing is returned and nothing is
\* written when no document was loaded; trigger_ingest goes on to
\* rag.initialize() either way.  texts is what is still to be inserted,
\* corpus the whole list handed to Chroma.from_documents.
IngestEnter(t) ==
  /\ Serving
  /\ pc[t] = "idle"
  /\ served.ingest < MaxIngests
  /\ served' = [served EXCEPT !.ingest = @ + 1]
  /\ \E failed \in SUBSET files :
       LET documents == load_documents(files, failed)
           texts     == split_documents(documents)
       IN  /\ req' = [req EXCEPT ![t] = [NoReq EXCEPT !.op = "ingest"]]
           /\ loc' = [loc EXCEPT ![t].ndocs = Len(documents),
                                 ![t].corpus = IF NoDocuments(documents)
                                               THEN <<>> ELSE texts,
                                 ![t].texts = IF NoDocuments(documents)
                                              THEN <<>> ELSE texts]
           /\ pc' = [pc EXCEPT ![t] = IF NoDocuments(documents)
                                      THEN "init_db" ELSE "write"]
  /\ UNCHANGED <<started, modelPresent, engine, files, dirExists, stores, resp,
                 tagIn, tagOut, resolver>>

\* Chroma.from_documents(texts, embeddings, persist_directory=...): a client
\* is opened on the persist directory (creating it) and the chunks are
\* embedded and inserted one after the other into the collection that the
\* engine's handle reads; no lock is held meanwhile.
IngestWrite(t) ==
  /\ Serving
  /\ pc[t] = "write"
  /\ loc[t].texts # <<>>
  /\ LET h == IF IsGiven(loc[t].handle) THEN Value(loc[t].handle) ELSE Current
     IN  /\ stores' = [stores EXCEPT ![h] = AddEntry(@, Head(loc[t].texts))]
         /\ loc' = [loc EXCEPT ![t].texts = Tail(@), ![t].handle = Some(h)]
         /\ dirExists' = (IF IsGiven(loc[t].handle) THEN dirExists ELSE TRUE)
  /\ UNCHANGED <<started, modelPresent, engine, files, pc, req, resp,
                 served, tagIn, tagOut, resolver>>

\* The write raises (an I/O fault): trigger_ingest answers 500 and does not
\* reach rag.initialize(); what was inserted so far stays.
IngestWriteFails(t) ==
  /\ Serving
  /\ pc[t] = "write"
  /\ loc[t].texts # <<>>
  /\ Respond(t, 500, "Ingestion failed", <<>>)
  /\ UNCHANGED <<started, modelPresent, engine, files, dirExists, stores, req,
                 loc, served, tagIn, tagOut, resolver>>

\* db.persist() and the return of ingest_documents: no value is returned on
\* either path, so loc[t].ret stays Absent (None).
IngestPersist(t) ==
  /\ Serving
  /\ pc[t] = "write"
  /\ loc[t].texts = <<>>
  /\ pc' = [pc EXCEPT ![t] = "init_db"]
  /\ UNCHANGED <<started, modelPresent, engine, files, dirExists, stores, req,
                 loc, resp, served, tagIn, tagOut, resolver>>

\* rag.initialize(), part 1: rag.db is replaced.
InitializeDb(t) ==
  /\ Serving
  /\ pc[t] = "init_db"
  /\ db' = OpenedDb
  /\ dirExists' = TRUE
  /\ loc' = [loc EXCEPT ![t].retriever = OpenedDb]
  /\ pc' = [pc EXCEPT ![t] = "init_chain"]
  /\ UNCHANGED <<started, modelPresent, llm, qa_chain, files, stores, req, resp,
                 served, tagIn, tagOut, resolver>>

\* rag.initialize(), parts 2 and 3, and the answer of trigger_ingest.
InitializeChain(t) ==
  /\ Serving
  /\ pc[t] = "init_chain"
  /\ llm' = LlmAfterInitialize(modelPresent, llm)
  /\ qa_chain' = ChainAfterInitialize(modelPresent, qa_chain,
                                      Value(loc[t].retriever))
  /\ Respond(t, 200, "Ingestion complete and RAG updated", <<>>)
  /\ UNCHANGED <<started, modelPresent, db, files, dirExists, stores, req, loc,
                 served, tagIn, tagOut, resolver>>

(***************************************************************************)
(* api.py: clear_database                                                  *)
(***************************************************************************)
\* The existence check and "closing" the connection: rag.db = None.
ClearEnter(t) ==
  /\ Serving
  /\ pc[t] = "idle"
  /\ served.clear < MaxClears
  /\ served' = [served EXCEPT !.clear = @ + 1]
  /\ req' = [req EXCEPT ![t] = [NoReq EXCEPT !.op = "clear"]]
  /\ IF ~dirExists
     THEN /\ Respond(t, 200, "No database found to clear", <<>>)
          /\ UNCHANGED db
     ELSE /\ db' = Absent
          /\ pc' = [pc EXCEPT ![t] = "rmtree"]
          /\ UNCHANGED resp
  /\ UNCHANGED <<started, modelPresent, llm, qa_chain, files, dirExists, stores,
                 loc, tagIn, tagOut, resolver>>

\* shutil.rmtree(persist_dir).  It removes the tree, or raises OSError: with
\* "Device or resource busy" the handler answers 200 with status "error",
\* any other OSError is answered 500.  rmtree removes the contents before the
\* directory itself, so a failure may leave the directory with its contents
\* or emptied (a mount point cannot be removed once emptied).
ClearRmtree(t) ==
  /\ Serving
  /\ pc[t] = "rmtree"
  /\ \/ /\ dirExists
        /\ dirExists' = FALSE
        /\ stores' = Append(stores, EmptyBag)
        /\ Respond(t, 200, "Database cleared successfully", <<>>)
     \/ /\ dirExists
        /\ \E emptied \in BOOLEAN :
             stores' = IF emptied THEN Append(stores, EmptyBag) ELSE stores
        /\ Respond(t, 200, "error: Database is locked", <<>>)
        /\ UNCHANGED dirExists
     \/ /\ \E emptied \in BOOLEAN :
             stores' = IF emptied /\ dirExists
                       THEN Append(stores, EmptyBag) ELSE stores
        /\ Respond(t, 500, "Failed to clear database", <<>>)
        /\ UNCHANGED dirExists
  /\ UNCHANGED <<started, modelPresent, engine, files, req, loc, served,
                 tagIn, tagOut, resolver>>

(***************************************************************************)
(* api.py: upload_document                                                 *)
(***************************************************************************)
Upload(category, filename, version) ==
  /\ Serving
  /\ files' = files \cup {File(category, FinalFilename(filename, version))}
  /\ UNCHANGED <<started, modelPresent, engine, dirExists, stores, pc, req, loc,
                 resp, served, tagIn, tagOut, resolver>>

\* The response has been sent; the thread takes the next request.
Return(t) ==
  /\ pc[t] = "done"
  /\ pc' = [pc EXCEPT ![t] = "idle"]
  /\ req' = [req EXCEPT ![t] = NoReq]
  /\ loc' = [loc EXCEPT ![t] = NoLoc]
  /\ resp' = [resp EXCEPT ![t] = NoResp]
  /\ UNCHANGED <<started, modelPresent, engine, files, dirExists, stores,
                 served, tagIn, tagOut, resolver>>

Next ==
  \/ Startup
  \/ \E t \in Threads, q \in Questions, c \in QueryCategories :
       QueryEnter(t, q, c)
  \/ \E t \in Threads : ChainRetrieve(t)
  \/ \E t \in Threads : ChainLlmReturn(t)
  \/ \E t \in Threads : DirectLlmReturn(t)
  \/ \E t \in Threads : IngestEnter(t)
  \/ \E t \in Threads : IngestWrite(t)
  \/ \E t \in Threads : IngestWriteFails(t)
  \/ \E t \in Threads : IngestPersist(t)
  \/ \E t \in Threads : InitializeDb(t)
  \/ \E t \in Threads : InitializeChain(t)
  \/ \E t \in Threads : ClearEnter(t)
  \/ \E t \in Threads : ClearRmtree(t)
  \/ \E c \in UploadCategories, n \in UploadNames, v \in UploadVersions :
       Upload(c, n, v)
  \/ \E t \in Threads : Return(t)

Spec == Init /\ [][Next]_vars

(***************************************************************************)
(* The tagger on its own: any retrieved set, not only those the loader     *)
(* can have produced (the index may hold entries written by other means)   *)
(***************************************************************************)
\* Largest version number of a retrieved chunk.
MaxVersion == 3

\* Longest retrieved sequence.
MaxRetrieved == 3

TagChunks ==
  [source   : {File(Leave, leave_pdf), File(Root, memo_txt)},
   category : {Leave, General},
   version  : 0..MaxVersion]

\* result.get("source_documents", []) grows by one retrieved chunk.
TagRetrieve(chunk) ==
  /\ Len(tagIn) < MaxRetrieved
  /\ tagIn' = Append(tagIn, chunk)
  /\ tagOut' = <<>>
  /\ UNCHANGED <<started, modelPresent, engine, files, dirExists, stores, pc,
                 req, loc, resp, served, resolver>>

\* The post-processing of query runs on the retrieved chunks.
TagApply ==
  /\ tagIn # <<>>
  /\ tagOut = <<>>
  /\ tagOut' = TagLatest(tagIn)
  /\ UNCHANGED <<started, modelPresent, engine, files, dirExists, stores, pc,
                 req, loc, resp, served, tagIn, resolver>>

NextTag ==
  \/ \E chunk \in TagChunks : TagRetrieve(chunk)
  \/ TagApply

SpecTag == Init /\ [][NextTag]_vars

(***************************************************************************)
(* extract_version on its own: any file name, not only those an upload of  *)
(* the model creates (the loader and the file listings of api.py hand it   *)
(* whatever name the source directory holds)                               *)
(***************************************************************************)
\* Longest file name.
MaxNameLen == 5

\* The characters of the file names: a letter, the characters of the suffix
\* pattern, two digits, the dot and the newline.
NameChars == {"a", "_", "v", "0", "2", ".", "\n"}

\* The file name grows by one character.
VersionName(c) ==
  /\ Len(verIn) < MaxNameLen
  /\ verIn' = Append(verIn, c)
  /\ verOut' = Absent
  /\ UNCHANGED <<started, modelPresent, engine, files, dirExists, stores, pc,
                 req, loc, resp, served, tagIn, tagOut>>

\* version = extract_version(os.path.basename(path)): the call returns.
VersionResolve ==
  /\ verOut = Absent
  /\ verOut' = Some(extract_version(verIn))
  /\ UNCHANGED <<started, modelPresent, engine, files, dirExists, stores, pc,
                 req, loc, resp, served, tagIn, tagOut, verIn>>

NextVersion ==
  \/ \E c \in NameChars : VersionName(c)
  \/ VersionResolve

SpecVersion == Init /\ [][NextVersion]_vars

(***************************************************************************)
(* Properties                                                              *)
(***************************************************************************)
IsQuery(t) == req[t].op = "query"

Done(t) == pc[t] = "done"

\* Two files that differ only in the _vN suffix of their names.
LogicalName(name) ==
  <<StripVersionSuffix(SplitExtRoot(name)), SplitExtExt(name)>>

SameLogicalDocument(a, b) ==
  /\ a.source.dir = b.source.dir
  /\ LogicalName(a.source.name) = LogicalName(b.source.name)
  /\ a.category = b.category

\* C1: in the sources of an answered category-scoped query, of the chunks of
\* the revisions of one logical document (same directory and category, file
\* names equal up to the _vN suffix) those of the highest retrieved version
\* are is_latest and those of every lower version are not.
C1_EndToEndLatest ==
  \A t \in Threads :
    (Done(t) /\ IsQuery(t) /\ Truthy(req[t].category)) =>
      \A i \in 1..Len(resp[t].sources) :
        LET d == resp[t].sources[i]
            revisions == {resp[t].sources[j].version :
                            j \in {k \in 1..Len(resp[t].sources) :
                                     SameLogicalDocument(resp[t].sources[k], d)}}
        IN  d.is_latest = (\A v \in revisions : v <= d.version)

\* C2: a query whose category is the sentinel in any letter case never
\* reaches the retriever or a retrieval chain; with the model loaded it
\* invokes the model on the raw question alone, and it answers 200 with no
\* sources, also when the model raises.
C2_DirectChat ==
  \A t \in Threads :
    (IsQuery(t) /\ Truthy(req[t].category)
       /\ IsSentinel(Value(req[t].category))) =>
      /\ pc[t] \in {"direct_llm", "done"}
      /\ ~loc[t].retrieved
      /\ loc[t].retriever = Absent
      /\ loc[t].docs = <<>>
      /\ llm # None =>
           loc[t].llmInput = Some(RawPrompt(req[t].question))
      /\ Done(t) =>
           /\ resp[t].status = 200
           /\ resp[t].sources = <<>>
           /\ llm # None => resp[t].body \in {"answer", "Error calling LLM"}

C2_Witness ==
  \E t \in Threads :
    /\ Done(t)
    /\ req[t].category = Some(NOTING)
    /\ resp[t].body = "Error calling LLM"

\* C3: while the model is not loaded, every query call, whatever its
\* category, has returned 200 with the unavailability answer and no sources,
\* and has invoked neither the retriever nor the model.
C3_ModelUnavailable ==
  llm = None =>
    \A t \in Threads :
      IsQuery(t) =>
        /\ Done(t)
        /\ resp[t].status = 200
        /\ resp[t].body = "Error: LLM not initialized"
        /\ resp[t].sources = <<>>
        /\ ~loc[t].retrieved
        /\ loc[t].retriever = Absent
        /\ loc[t].llmInput = Absent

C3_Witness ==
  /\ llm = None
  /\ started
  /\ stores[Current] # EmptyBag
  /\ \E t \in Threads :
       /\ Done(t)
       /\ req[t].category = Some(Noting)
       /\ resp[t].body = "Error: LLM not initialized"

\* C4: a query with a category other than the sentinel returns only chunks
\* of exactly that category, at most TopK of them, and when the index holds
\* no entry of the category it returns no sources and does not fail (unless
\* the language model itself raised).
C4_CategoryScoped ==
  \A t \in Threads :
    (Done(t) /\ IsQuery(t) /\ IsGiven(req[t].category)
       /\ ~IsSentinel(Value(req[t].category))) =>
      /\ Len(resp[t].sources) <= TopK
      /\ \A i \in 1..Len(resp[t].sources) :
           resp[t].sources[i].category = Value(req[t].category)
      /\ Filtered(stores[Current], req[t].category) = EmptyBag =>
           /\ resp[t].sources = <<>>
           /\ resp[t].status = 200 \/ IsGiven(loc[t].llmInput)

IsIngest(t) == req[t].op = "ingest"

\* An ingestion whose load yielded no document.
EmptyIngest(t) == IsIngest(t) /\ loc[t].ndocs = 0

MidWrite(u) ==
  /\ pc[u] = "write"
  /\ IsGiven(loc[u].handle)
  /\ loc[u].texts # <<>>

\* C6: no retrieval of a query reads a store into which an ingestion in
\* progress has written a part of its chunks.
C6_NoPartialIndexRead ==
  [][\A t \in Threads :
       (pc[t] = "chain_invoke" /\ pc'[t] = "rag_llm") =>
         ~\E u \in Threads :
            MidWrite(u) /\ loc[u].handle = loc[t].retriever]_vars

\* C7: at most one ingestion is in progress at any time.
C7_SingleWriter ==
  Cardinality({t \in Threads : IsIngest(t) /\ ~Done(t)}) <= 1

\* C8: at most one invocation of the language model is in flight at any time.
C8_ModelSerialised ==
  Cardinality({t \in Threads : pc[t] \in {"direct_llm", "rag_llm"}}) <= 1

\* C9: a clear answered "busy" is told apart from a successful clear and from
\* a generic failure, and leaves the engine with a usable index handle.
C9_BusyClearRecoverable ==
  \A t \in Threads :
    (Done(t) /\ req[t].op = "clear"
       /\ resp[t].body = "error: Database is locked") =>
      /\ resp[t].status # 500
      /\ IsGiven(db)

\* The largest version among the chunks of docs that share doc's key.
MaxVersionOfKey(docs, doc) ==
  LET vs == {docs[j].version :
               j \in {k \in 1..Len(docs) : VersionKey(docs[k]) = VersionKey(doc)}}
  IN  CHOOSE m \in vs : \A v \in vs : v <= m

C11_VersionPositive ==
  IsGiven(verOut) => (Value(verOut) \in Int /\ Value(verOut) >= 1)

\* The places where file name s ends in an underscore, the letter v and one
\* or more digits, once an extension (a dot and one or more characters that
\* are no dot) is left off its end, or with no extension: <<i, j>> stands
\* for the underscore at i and the digits at i + 2 .. j.
VersionSuffixes(s) ==
  {c \in (1..Len(s)) \X (1..Len(s)) :
     /\ c[1] + 2 <= c[2]
     /\ s[c[1]] = "_"
     /\ s[c[1] + 1] = "v"
     /\ \A k \in (c[1] + 2)..c[2] : IsDigit(s[k])
     /\ \/ c[2] = Len(s)
        \/ /\ c[2] + 2 <= Len(s)
           /\ s[c[2] + 1] = "."
           /\ \A k \in (c[2] + 2)..Len(s) : s[k] # "."}

\* C12: extract_version returns 1 for a file name that, its extension left
\* off, does not end in _v and digits, and otherwise the value of those
\* digits, whatever the extension.
C12_SuffixParsed ==
  IsGiven(verOut) =>
    IF VersionSuffixes(verIn) = {}
    THEN Value(verOut) = 1
    ELSE \E c \in VersionSuffixes(verIn) :
           Value(verOut) = ParseInt(SubSeq(verIn, c[1] + 2, c[2]))

\* The chunks of a list as a bag.
RECURSIVE ChunkBag(_)
ChunkBag(texts) ==
  IF texts = <<>> THEN EmptyBag
  ELSE ChunkBag(Tail(texts)) (+) SetToBag({Head(texts)})

\* C13: when an ingestion of a non-empty corpus has answered, no clear has
\* been requested and no other ingestion is under way, the index the engine
\* reads holds exactly the chunks that ingestion loaded: no entry twice, none
\* of an earlier ingestion's left over.
C13_FreshIndexPerIngest ==
  \A t \in Threads :
    (/\ Done(t)
     /\ IsIngest(t)
     /\ resp[t].status = 200
     /\ loc[t].ndocs > 0
     /\ served.clear = 0
     /\ \A u \in Threads \ {t} : ~IsIngest(u)) =>
      /\ db = Some(Current)
      /\ stores[Current] = ChunkBag(loc[t].corpus)

\* No handler is under way: every thread waits for a request or has answered.
Quiescent == \A t \in Threads : pc[t] \in {"idle", "done"}

\* C14: between operations, when a retrieval chain exists its retriever
\* reads the handle the engine holds (the one a category-scoped query makes
\* its retriever of), and that handle is on the index now on disk, not on
\* one that was cleared or replaced; and, no clear being under way, no query
\* fails for want of a handle (it answers 500 only when the language model
\* was invoked and raised).
C14_ChainReadsCurrentIndex ==
  /\ (Quiescent /\ IsGiven(qa_chain)) =>
       /\ db = Some(Value(qa_chain).retriever)
       /\ Value(qa_chain).retriever = Current
  /\ \A t \in Threads :
       (/\ Done(t)
        /\ IsQuery(t)
        /\ resp[t].status = 500
        /\ \A u \in Threads : pc[u] # "rmtree") =>
         IsGiven(loc[t].llmInput)

====
